---------------------------- MODULE Spec2Model ----------------------------
(***************************************************************************)
(* Crazy Clock (ATtiny45): the common infrastructure of base.c (10 Hz      *)
(* timer interrupt with a fractional divider, sleep/backlog accounting,    *)
(* PRNG seed persistence, coil pulse driver) and the "lazy" policy of      *)
(* lazy.c.  The build options (clock profile, DEBUG, SW_TRIM) are fixed    *)
(* by the initial state.                                                   *)
(*                                                                         *)
(* Two execution contexts: the main context, whose position is pc, and     *)
(* the TIMER0_COMPA interrupt, which may run between any two main steps    *)
(* once main() has executed sei().  The handler itself, and the            *)
(* ATOMIC_BLOCK of doSleep(), run with interrupts masked: each is one      *)
(* step.  Main-context statements that touch only main-private data are    *)
(* grouped into one step per shared access.                                *)
(*                                                                         *)
(* Integer widths are those of avr-gcc: unsigned char 8 bits, int 16       *)
(* bits, long 32 bits.  avr-gcc defines signed >> as an arithmetic shift   *)
(* and signed << as the two's complement shift, which is what q_random     *)
(* relies on.                                                              *)
(***************************************************************************)
EXTENDS Integers, Sequences, FiniteSets

VARIABLES
  clock,               \* build option: "FOUR_MHZ_CLOCK" or "THIRTYTWO_KHZ_CLOCK"
  DEBUG,               \* build option: #ifdef DEBUG
  SW_TRIM,             \* build option: #ifdef SW_TRIM
  ee_trim,             \* word at EE_TRIM_LOC, read as an int
  pc,                  \* position of the main context
  ret,                 \* call site doSleep() returns to
  seed,                \* static long seed
  eeprom,              \* dword at EE_PRNG_SEED_LOC, read as a long
  sleep_miss_counter,  \* volatile unsigned char, shared with the ISR
  seed_update_timer,   \* static unsigned long
  local_smc,           \* doSleep's snapshot
  lastTick,            \* doTick's static
  PORTB,               \* set of pins driven high
  cycle_pos,           \* ISR's static
  trim_pos,            \* ISR's static under SW_TRIM
  OCR0A,               \* timer compare register
  tick_count,          \* loop's n
  i,                   \* loop's for-counter
  seedUpdateAfter,     \* loop's countdown
  \* history variables, read by no action's guard or assignment to program state
  interrupts,          \* interrupts taken
  decrements,          \* atomic blocks executed
  snap,                \* counter value at entry of the last atomic block
  post,                \* counter value stored by the last atomic block
  slept,               \* the last sleep test entered sleep_mode()
  pulses,              \* doTick() calls so far
  driven,              \* pins driven by the last two doTick() calls, oldest first
  iterPulses,          \* doTick() calls of the current loop iteration
  iterBurstSleeps,     \* loop's own doSleep() calls in the burst phase
  iterIdle,            \* loop's doSleep() calls in the idle phase
  iterConsumes,        \* every doSleep() call of the current iteration
  iterations,          \* completed loop iterations
  window,              \* compare values of the last CLOCK_CYCLES intervals
  draws,               \* q_random() calls after main's own
  rolled,              \* the last interrupt rolled trim_pos over
  persisted,           \* the seed dword as this power cycle found it
  startSeed,           \* the seed main() first advanced
  prevPersisted,       \* the seed dword as the previous power cycle found it
  powerCycles,         \* power cycles after the first power-on
  eeWrites,            \* eeprom_write_dword() calls
  persistCalls,        \* updateSeed() calls
  seedPersisted,       \* updateSeed() was called since seed last changed
  sleepCalls,          \* doSleep() calls since startup
  sleepPersists,       \* updateSeed() calls made by doSleep()
  lastPersistCall      \* number of the doSleep() call that last made one

vars == <<clock, DEBUG, SW_TRIM, ee_trim, pc, ret, seed, eeprom, sleep_miss_counter, seed_update_timer,
          local_smc, lastTick, PORTB, cycle_pos, OCR0A, tick_count, i,
          seedUpdateAfter, interrupts, decrements, snap, post, slept, pulses,
          driven, iterPulses, iterBurstSleeps, iterIdle,
          iterConsumes, iterations, window, draws, trim_pos, rolled,
          persisted, startSeed, prevPersisted, powerCycles, eeWrites,
          persistCalls, seedPersisted, sleepCalls, sleepPersists,
          lastPersistCall>>

build == <<clock, DEBUG, SW_TRIM, ee_trim>>

mainPrivate == <<seed, eeprom, seed_update_timer, lastTick, PORTB, tick_count,
                 i, seedUpdateAfter>>
isrPrivate == <<cycle_pos, OCR0A, window, interrupts>>
sleepHist == <<decrements, snap, post, slept>>
pulseHist == <<pulses, driven>>
iterHist == <<iterPulses, iterBurstSleeps, iterIdle, iterConsumes, iterations>>
trimState == <<trim_pos, rolled>>
powerHist == <<persisted, startSeed, prevPersisted, powerCycles>>
persistHist == <<eeWrites, persistCalls, seedPersisted>>
countHist == <<sleepCalls, sleepPersists, lastPersistCall>>

-----------------------------------------------------------------------------
(* Bounds of the model *)

MaxInterrupts == 36
MaxLazyInterrupts == 310
MaxDividerInterrupts == 200
MaxDraws == 12
RandomSpan == 2
MaxPersists == 4
MaxPowerCycles == 4
MaxSleepCalls == 864010
MaxTrimInterrupts == 14
MaxLiveInterrupts == 12

-----------------------------------------------------------------------------
(* Program constants *)

ClockProfiles == {"FOUR_MHZ_CLOCK", "THIRTYTWO_KHZ_CLOCK"}
CLOCK_CYCLES == IF clock = "FOUR_MHZ_CLOCK" THEN 64 ELSE 5
CLOCK_BASIC_CYCLE == IF clock = "FOUR_MHZ_CLOCK" THEN 48 - 1 ELSE 51 - 1
CLOCK_NUM_LONG_CYCLES == IF clock = "FOUR_MHZ_CLOCK" THEN 53 ELSE 1

SEED_UPDATE_INTERVAL == 864000
P0 == 0
P1 == 1
P_UNUSED == 2
M == 2147483647
DefaultSeed == 305419896
ErasedEeprom == -1
MinLong == (-2147483647) - 1

\* base.c 164: trim_pos += 10000000
TrimQuantum == 10000000

\* avr-libc's random() returns a long in 0 .. RANDOM_MAX (0x7FFFFFFF).
RANDOM_MAX == M

-----------------------------------------------------------------------------
(* Fixed-width arithmetic *)

UChar(x) == x % 256
Int16(x) == ((x + 32768) % 65536) - 32768

\* --t on an unsigned long.  0 wraps to 0xFFFFFFFF, written here as the long
\* of the same 32 bits.
ULongDec(t) == IF t = 0 THEN -1 ELSE t - 1

-----------------------------------------------------------------------------
(* q_random, base.c 94-98.  seed >> k is the arithmetic shift (floor       *)
(* division); (seed << 15) & M keeps bits 0..15 of seed, moved to 15..30;  *)
(* (seed << 10) & M keeps bits 0..20, moved to 10..30.                      *)

QRandomStep(s) ==
  LET t == (s \div 65536) + ((s % 65536) * 32768)
           - (s \div 2097152) - ((s % 2097152) * 1024)
  IN  IF t < 0 THEN t + M ELSE t

\* main, base.c 212: (seed & M) == M tests the low 31 bits.
AndM(s) == IF s >= 0 THEN s ELSE s - MinLong

SeedGuardExactMax(s) == IF s = 0 \/ s = M THEN DefaultSeed ELSE s

SeedGuard(s) == IF s = 0 \/ AndM(s) = M THEN DefaultSeed ELSE s

\* updateSeed, base.c 100-105: the stored dword after the call.
UpdateSeedStoreKept(stored, s) == stored

UpdateSeedStore(stored, s) == IF stored = s THEN stored ELSE s

\* updateSeed, base.c 100-105: the eeprom_write_dword() calls it makes.
UpdateSeedWritesAlways(stored, s) == 1

UpdateSeedWrites(stored, s) == IF stored = s THEN 0 ELSE 1

-----------------------------------------------------------------------------
(* Initial state: power-on.  Statics are zero (.bss) or their initialiser, *)
(* I/O registers hold their reset value 0, the EEPROM holds what the last  *)
(* power cycle (or the programmer) left there.                             *)

PowerOn(e, c, d, w, t) ==
  /\ clock = c
  /\ DEBUG = d
  /\ SW_TRIM = w
  /\ ee_trim = t
  /\ pc = "main"
  /\ ret = "none"
  /\ seed = 0
  /\ eeprom = e
  /\ sleep_miss_counter = 0
  /\ seed_update_timer = 0
  /\ local_smc = 0
  /\ lastTick = P0
  /\ PORTB = {}
  /\ cycle_pos = 0
  /\ OCR0A = 0
  /\ tick_count = 0
  /\ i = 0
  /\ seedUpdateAfter = 0
  /\ interrupts = 0
  /\ decrements = 0
  /\ snap = 0
  /\ post = 0
  /\ slept = FALSE
  /\ pulses = 0
  /\ driven = <<>>
  /\ iterPulses = 0
  /\ iterBurstSleeps = 0
  /\ iterIdle = 0
  /\ iterConsumes = 0
  /\ iterations = 0
  /\ window = <<>>
  /\ draws = 0
  /\ trim_pos = 0
  /\ rolled = FALSE
  /\ persisted = e
  /\ startSeed = 0
  /\ prevPersisted = e
  /\ powerCycles = 0
  /\ eeWrites = 0
  /\ persistCalls = 0
  /\ seedPersisted = FALSE
  /\ sleepCalls = 0
  /\ sleepPersists = 0
  /\ lastPersistCall = 0

\* DEBUG and SW_TRIM not defined
InitWith(e, c) == PowerOn(e, c, FALSE, FALSE, 0)

Init == \E c \in ClockProfiles : InitWith(ErasedEeprom, c)

-----------------------------------------------------------------------------
(* main, base.c 190-227: everything up to sei() runs with interrupts off.  *)

main ==
  /\ pc = "main"
  /\ PORTB' = {}
  /\ startSeed' = SeedGuard(eeprom)
  /\ seed' = QRandomStep(startSeed')
  /\ eeprom' = UpdateSeedStore(eeprom, seed')
  /\ eeWrites' = eeWrites + UpdateSeedWrites(eeprom, seed')
  /\ persistCalls' = persistCalls + 1
  /\ seedPersisted' = TRUE
  /\ seed_update_timer' = SEED_UPDATE_INTERVAL
  /\ OCR0A' = CLOCK_BASIC_CYCLE + 1
  /\ pc' = "loop_entry"
  /\ UNCHANGED <<build, ret, sleep_miss_counter, local_smc, lastTick, cycle_pos,
                 tick_count, i, seedUpdateAfter, interrupts, window, draws>>
  /\ UNCHANGED <<sleepHist, pulseHist, iterHist, trimState, countHist>>
  /\ UNCHANGED <<persisted, prevPersisted, powerCycles>>


-----------------------------------------------------------------------------
(* ISR(TIMER0_COMPA_vect), base.c 153-186.  The handler runs with          *)
(* interrupts masked: one step.                                            *)

\* unsigned char ++cycle_pos, then the reset of base.c 177-180
NextCyclePos(pos) ==
  IF UChar(pos + 1) >= CLOCK_CYCLES THEN 0 ELSE UChar(pos + 1)

\* OCR0A after base.c 175-180, pos being cycle_pos on entry
NextCompareLate(pos, ocr, offset) ==
  LET p == UChar(pos + 1)
      o == IF p = CLOCK_NUM_LONG_CYCLES + 1 THEN CLOCK_BASIC_CYCLE + offset ELSE ocr
  IN  IF p >= CLOCK_CYCLES THEN CLOCK_BASIC_CYCLE + 1 + offset ELSE o

NextCompare(pos, ocr, offset) ==
  LET p == UChar(pos + 1)
      o == IF p = CLOCK_NUM_LONG_CYCLES THEN CLOCK_BASIC_CYCLE + offset ELSE ocr
  IN  IF p >= CLOCK_CYCLES THEN CLOCK_BASIC_CYCLE + 1 + offset ELSE o

\* sleep_miss_counter++ on an unsigned char
Increment(c) == UChar(c + 1)

\* the last n elements of s
LastN(s, n) == IF Len(s) <= n THEN s ELSE SubSeq(s, Len(s) - n + 1, Len(s))

\* base.c 161-163 under SW_TRIM: crystal_cycles = OCR0A, and the test
\* trim_pos < crystal_cycles
TrimRolls(tp, ocr) == SW_TRIM /\ tp < ocr

\* base.c 159, 165: int offset, read from EE_TRIM_LOC when trim_pos rolls over
TrimOffset(tp, ocr) == IF TrimRolls(tp, ocr) THEN Int16(ee_trim) ELSE 0

\* base.c 163-167: trim_pos after the handler
NextTrimPos(tp, ocr) ==
  IF SW_TRIM
    THEN (IF TrimRolls(tp, ocr) THEN tp + TrimQuantum ELSE tp) - ocr
    ELSE tp

\* sleep_mode() returns when an interrupt has been taken
WakeNever(p) == p

Wake(p) == IF p = "asleep" THEN "doSleep_ret" ELSE p

\* The interval that ends with this interrupt was timed by the compare
\* value the register held during it: OCR0A on entry.  OCR0A is an 8-bit
\* register.
ISR(limit) ==
  /\ pc # "main"
  /\ interrupts < limit
  /\ cycle_pos' = NextCyclePos(cycle_pos)
  /\ OCR0A' = UChar(NextCompare(cycle_pos, OCR0A, TrimOffset(trim_pos, OCR0A)))
  /\ trim_pos' = NextTrimPos(trim_pos, OCR0A)
  /\ rolled' = TrimRolls(trim_pos, OCR0A)
  /\ sleep_miss_counter' = Increment(sleep_miss_counter)
  /\ pc' = Wake(pc)
  /\ interrupts' = interrupts + 1
  /\ window' = LastN(Append(window, OCR0A), CLOCK_CYCLES)
  /\ UNCHANGED <<build, ret, local_smc, draws, mainPrivate>>
  /\ UNCHANGED <<sleepHist, pulseHist, iterHist, powerHist, persistHist, countHist>>

-----------------------------------------------------------------------------
(* doSleep, base.c 110-134 *)

\* the value the test of base.c 112 and lazy.c 35 compares with 0
CountdownTestPostDecrement(t) == t

CountdownTest(t) == ULongDec(t)

\* base.c 112-115: the countdown and the periodic updateSeed()
doSleep ==
  /\ pc = "doSleep"
  /\ sleepCalls' = sleepCalls + 1
  /\ IF CountdownTest(seed_update_timer) = 0
       THEN /\ eeprom' = UpdateSeedStore(eeprom, seed)
            /\ eeWrites' = eeWrites + UpdateSeedWrites(eeprom, seed)
            /\ persistCalls' = persistCalls + 1
            /\ seedPersisted' = TRUE
            /\ sleepPersists' = sleepPersists + 1
            /\ lastPersistCall' = sleepCalls'
            /\ seed_update_timer' = SEED_UPDATE_INTERVAL
       ELSE /\ UNCHANGED <<eeprom, persistHist, sleepPersists, lastPersistCall>>
            /\ seed_update_timer' = ULongDec(seed_update_timer)
  /\ pc' = "doSleep_atomic"
  /\ iterConsumes' = iterConsumes + 1
  /\ UNCHANGED <<build, ret, seed, sleep_miss_counter, local_smc, lastTick,
                 PORTB, tick_count, i, seedUpdateAfter, draws,
                 iterPulses, iterBurstSleeps, iterIdle, iterations>>
  /\ UNCHANGED <<isrPrivate, sleepHist, pulseHist, trimState, powerHist>>

\* sleep_miss_counter-- on an unsigned char
DecrementLost(c) == c

Decrement(c) == UChar(c + 255)

\* the value of the post-decrement expression sleep_miss_counter--
SnapshotPreDecrement(c) == UChar(c + 255)

Snapshot(c) == c

\* base.c 122-124: ATOMIC_BLOCK, interrupts masked
doSleep_atomic ==
  /\ pc = "doSleep_atomic"
  /\ local_smc' = Snapshot(sleep_miss_counter)
  /\ sleep_miss_counter' = Decrement(sleep_miss_counter)
  /\ pc' = "doSleep_test"
  /\ decrements' = decrements + 1
  /\ snap' = sleep_miss_counter
  /\ post' = sleep_miss_counter'
  /\ UNCHANGED <<build, ret, slept, draws, mainPrivate>>
  /\ UNCHANGED <<isrPrivate, pulseHist, iterHist>>
  /\ UNCHANGED <<trimState, powerHist, persistHist, countHist>>

\* PORTB |= _BV(pin)
PinHigh(port, pin) == port \cup {pin}

\* base.c 125
ShouldSleepNever(l) == FALSE

ShouldSleepOnBacklog(l) == l # 0

ShouldSleepOnOne(l) == l = 1

ShouldSleep(l) == l = 0

\* base.c 125-133: the test and sleep_mode().  An interrupt taken before
\* the sleep instruction does not wake it: asleep waits for the next one.
\* Under DEBUG the else branch drives P_UNUSED high and spins in while(1).
doSleep_test ==
  /\ pc = "doSleep_test"
  /\ IF ShouldSleep(local_smc)
       THEN /\ pc' = "asleep"
            /\ PORTB' = PORTB
       ELSE IF DEBUG
         THEN /\ pc' = "lockup"
              /\ PORTB' = PinHigh(PORTB, P_UNUSED)
         ELSE /\ pc' = "doSleep_ret"
              /\ PORTB' = PORTB
  /\ slept' = ShouldSleep(local_smc)
  /\ UNCHANGED <<build, ret, sleep_miss_counter, local_smc, draws,
                 decrements, snap, post, seed, eeprom, seed_update_timer,
                 lastTick, tick_count, i, seedUpdateAfter>>
  /\ UNCHANGED <<isrPrivate, pulseHist, iterHist>>
  /\ UNCHANGED <<trimState, powerHist, persistHist, countHist>>

\* Where a return of doSleep() continues, and the for-counter there:
\* from doTick (base.c 150) doTick returns too and lazy.c 43 is next;
\* lazy.c 43 and 47 are each followed by their loop's i++.
ContinuationSingleConsume(r, k) ==
  IF r = "idle" THEN [pc |-> "idle", i |-> Int16(k + 1)]
                ELSE [pc |-> "burst", i |-> Int16(k + 1)]

Continuation(r, k) ==
  CASE r = "doTick" -> [pc |-> "burst_sleep", i |-> k]
    [] r = "burst"  -> [pc |-> "burst", i |-> Int16(k + 1)]
    [] r = "idle"   -> [pc |-> "idle", i |-> Int16(k + 1)]
    [] r = "sleeper" -> [pc |-> "sleeper", i |-> k]

doSleep_ret ==
  /\ pc = "doSleep_ret"
  /\ pc' = Continuation(ret, i).pc
  /\ i' = Continuation(ret, i).i
  /\ ret' = "none"
  /\ UNCHANGED <<build, seed, eeprom, sleep_miss_counter, seed_update_timer,
                 local_smc, lastTick, PORTB, tick_count, seedUpdateAfter, draws>>
  /\ UNCHANGED <<isrPrivate, sleepHist, pulseHist, iterHist>>
  /\ UNCHANGED <<trimState, powerHist, persistHist, countHist>>

-----------------------------------------------------------------------------
(* doTick, base.c 140-151 *)

\* #define TICK_PIN (lastTick == P0?P1:P0)
TICK_PIN_Same(l) == l

TICK_PIN(l) == IF l = P0 THEN P1 ELSE P0

\* PORTB &= ~ _BV(pin)
PinLowForgotten(port, pin) == port

PinLow(port, pin) == port \ {pin}

\* base.c 146: the pin goes high; _delay_ms(TICK_LENGTH) follows
doTick ==
  /\ pc = "doTick"
  /\ PORTB' = PinHigh(PORTB, TICK_PIN(lastTick))
  /\ pc' = "doTick_hold"
  /\ pulses' = pulses + 1
  /\ iterPulses' = iterPulses + 1
  /\ driven' = LastN(Append(driven, TICK_PIN(lastTick)), 2)
  /\ UNCHANGED <<build, ret, seed, eeprom, sleep_miss_counter, seed_update_timer,
                 local_smc, lastTick, tick_count, i, seedUpdateAfter, draws,
                 iterBurstSleeps, iterIdle, iterConsumes, iterations>>
  /\ UNCHANGED <<isrPrivate, sleepHist>>
  /\ UNCHANGED <<trimState, powerHist, persistHist, countHist>>

\* base.c 148-150: the delay is over; pin low, lastTick flips, doSleep()
doTick_hold_RestartsDivider ==
  /\ pc = "doTick_hold"
  /\ PORTB' = PinLow(PORTB, TICK_PIN(lastTick))
  /\ lastTick' = TICK_PIN(lastTick)
  /\ ret' = "doTick"
  /\ pc' = "doSleep"
  /\ cycle_pos' = 0
  /\ UNCHANGED <<build, seed, eeprom, sleep_miss_counter, seed_update_timer,
                 local_smc, tick_count, i, seedUpdateAfter, draws>>
  /\ UNCHANGED <<OCR0A, window, interrupts, sleepHist, pulseHist, iterHist>>
  /\ UNCHANGED <<trimState, powerHist, persistHist, countHist>>

doTick_hold ==
  /\ pc = "doTick_hold"
  /\ PORTB' = PinLow(PORTB, TICK_PIN(lastTick))
  /\ lastTick' = TICK_PIN(lastTick)
  /\ ret' = "doTick"
  /\ pc' = "doSleep"
  /\ UNCHANGED <<build, seed, eeprom, sleep_miss_counter, seed_update_timer,
                 local_smc, tick_count, i, seedUpdateAfter, draws>>
  /\ UNCHANGED <<isrPrivate, sleepHist, pulseHist, iterHist>>
  /\ UNCHANGED <<trimState, powerHist, persistHist, countHist>>

-----------------------------------------------------------------------------
(* loop, lazy.c 30-49 *)

\* The outputs of random() the model draws from: both ends of its range
\* and the values around the modulus.
RandomOutputs ==
  (0 .. RandomSpan) \cup {29, 30} \cup {RANDOM_MAX - k : k \in 0 .. RandomSpan}

\* lazy.c 39: unsigned char tick_count = (random() % 30) + 1
TickCountMod31(r) == UChar((r % 31) + 1)

TickCount(r) == UChar((r % 30) + 1)

\* lazy.c 46: tick_count * 8, computed in int
IdleCountNine(n) == Int16(n * 9)

IdleCount(n) == Int16(n * 8)

\* lazy.c 31
loop_entry ==
  /\ pc = "loop_entry"
  /\ seedUpdateAfter' = SEED_UPDATE_INTERVAL
  /\ pc' = "loop_top"
  /\ UNCHANGED <<build, ret, seed, eeprom, sleep_miss_counter, seed_update_timer,
                 local_smc, lastTick, PORTB, tick_count, i, draws>>
  /\ UNCHANGED <<isrPrivate, sleepHist, pulseHist, iterHist>>
  /\ UNCHANGED <<trimState, powerHist, persistHist, countHist>>

\* lazy.c 35-41: countdown, draw, int i = 0
loop_top ==
  /\ pc = "loop_top"
  /\ IF CountdownTest(seedUpdateAfter) = 0
       THEN /\ eeprom' = UpdateSeedStore(eeprom, seed)
            /\ eeWrites' = eeWrites + UpdateSeedWrites(eeprom, seed)
            /\ persistCalls' = persistCalls + 1
            /\ seedPersisted' = TRUE
            /\ seedUpdateAfter' = SEED_UPDATE_INTERVAL
       ELSE /\ UNCHANGED <<eeprom, persistHist>>
            /\ seedUpdateAfter' = ULongDec(seedUpdateAfter)
  /\ \E r \in RandomOutputs : tick_count' = TickCount(r)
  /\ i' = 0
  /\ pc' = "burst"
  /\ iterPulses' = 0
  /\ iterBurstSleeps' = 0
  /\ iterIdle' = 0
  /\ iterConsumes' = 0
  /\ UNCHANGED <<build, ret, seed, sleep_miss_counter, seed_update_timer,
                 local_smc, lastTick, PORTB, draws, iterations>>
  /\ UNCHANGED <<isrPrivate, sleepHist, pulseHist>>
  /\ UNCHANGED <<trimState, powerHist, countHist>>

\* lazy.c 41-42: i < tick_count, then doTick(); else the second for's int i = 0
burst ==
  /\ pc = "burst"
  /\ IF i < tick_count
       THEN /\ pc' = "doTick"
            /\ i' = i
       ELSE /\ pc' = "idle"
            /\ i' = 0
  /\ UNCHANGED <<build, ret, seed, eeprom, sleep_miss_counter, seed_update_timer,
                 local_smc, lastTick, PORTB, tick_count, seedUpdateAfter, draws>>
  /\ UNCHANGED <<isrPrivate, sleepHist, pulseHist, iterHist>>
  /\ UNCHANGED <<trimState, powerHist, persistHist, countHist>>

\* lazy.c 43: doSleep() after doTick() has returned
burst_sleep ==
  /\ pc = "burst_sleep"
  /\ ret' = "burst"
  /\ pc' = "doSleep"
  /\ iterBurstSleeps' = iterBurstSleeps + 1
  /\ UNCHANGED <<build, draws, sleep_miss_counter, local_smc, mainPrivate,
                 iterPulses, iterIdle, iterConsumes, iterations>>
  /\ UNCHANGED <<isrPrivate, sleepHist, pulseHist>>
  /\ UNCHANGED <<trimState, powerHist, persistHist, countHist>>

\* lazy.c 46-47: i < tick_count * 8, then doSleep(); else the while's next turn
idle ==
  /\ pc = "idle"
  /\ IF i < IdleCount(tick_count)
       THEN /\ ret' = "idle"
            /\ pc' = "doSleep"
            /\ iterIdle' = iterIdle + 1
            /\ iterations' = iterations
       ELSE /\ ret' = ret
            /\ pc' = "loop_top"
            /\ iterIdle' = iterIdle
            /\ iterations' = iterations + 1
  /\ UNCHANGED <<build, draws, sleep_miss_counter, local_smc, mainPrivate,
                 iterPulses, iterBurstSleeps, iterConsumes>>
  /\ UNCHANGED <<isrPrivate, sleepHist, pulseHist>>
  /\ UNCHANGED <<trimState, powerHist, persistHist, countHist>>

-----------------------------------------------------------------------------
(* Specifications *)

MainStep ==
  \/ main
  \/ loop_entry
  \/ loop_top
  \/ burst
  \/ burst_sleep
  \/ idle
  \/ doTick
  \/ doTick_hold
  \/ doSleep
  \/ doSleep_atomic
  \/ doSleep_test
  \/ doSleep_ret

\* The interrupt may be taken between any two main steps.
Interrupt == ISR(MaxInterrupts)

Next == MainStep \/ Interrupt

Spec == Init /\ [][Next]_vars

\* The lazy policy on time: the interrupt is taken only while the main
\* context sleeps, the normal operation where the work of one tick ends
\* before the next interrupt.
TimelyInterrupt == pc = "asleep" /\ ISR(MaxLazyInterrupts)

LazyNext == MainStep \/ TimelyInterrupt

SpecLazy == Init /\ [][LazyNext]_vars

\* The divider alone: after main(), interrupts with the main context held up.
DividerInterrupt == ISR(MaxDividerInterrupts)

DividerNext == main \/ DividerInterrupt

SpecDivider == Init /\ [][DividerNext]_vars

\* The seed store alone: every persisted dword of PersistedSeeds at power-on,
\* main(), then q_random() calls by a policy.
PersistedSeeds ==
  {0, 1, 2, 65536, DefaultSeed, M - 1, M, ErasedEeprom, -2, MinLong, MinLong + 1,
   MinLong + 2}

SeedInit == \E e \in PersistedSeeds, c \in ClockProfiles : InitWith(e, c)

\* q_random, base.c 94-98, called from main context after main()'s own call
q_random ==
  /\ pc # "main"
  /\ draws < MaxDraws
  /\ seed' = QRandomStep(seed)
  /\ draws' = draws + 1
  /\ seedPersisted' = (seedPersisted /\ seed' = seed)
  /\ UNCHANGED <<build, pc, ret, eeprom, sleep_miss_counter, seed_update_timer,
                 local_smc, lastTick, PORTB, tick_count, i, seedUpdateAfter>>
  /\ UNCHANGED <<isrPrivate, sleepHist, pulseHist, iterHist>>
  /\ UNCHANGED <<trimState, powerHist, countHist, eeWrites, persistCalls>>

\* updateSeed, base.c 100-105, called when a countdown of doSleep() or of
\* the policy expires
updateSeed ==
  /\ pc # "main"
  /\ persistCalls < MaxPersists
  /\ eeprom' = UpdateSeedStore(eeprom, seed)
  /\ eeWrites' = eeWrites + UpdateSeedWrites(eeprom, seed)
  /\ persistCalls' = persistCalls + 1
  /\ seedPersisted' = TRUE
  /\ UNCHANGED <<build, pc, ret, seed, sleep_miss_counter, seed_update_timer,
                 local_smc, lastTick, PORTB, tick_count, i, seedUpdateAfter,
                 draws>>
  /\ UNCHANGED <<isrPrivate, sleepHist, pulseHist, iterHist>>
  /\ UNCHANGED <<trimState, powerHist, countHist>>

SeedNext == main \/ q_random \/ updateSeed

SpecSeed == SeedInit /\ [][SeedNext]_vars

\* The battery is changed: RAM and registers return to their power-on
\* values, the EEPROM keeps its contents, main() runs again.
PowerCycle ==
  /\ pc # "main"
  /\ powerCycles < MaxPowerCycles
  /\ pc' = "main"
  /\ ret' = "none"
  /\ seed' = 0
  /\ sleep_miss_counter' = 0
  /\ seed_update_timer' = 0
  /\ local_smc' = 0
  /\ lastTick' = P0
  /\ PORTB' = {}
  /\ cycle_pos' = 0
  /\ OCR0A' = 0
  /\ tick_count' = 0
  /\ i' = 0
  /\ seedUpdateAfter' = 0
  /\ interrupts' = 0
  /\ decrements' = 0
  /\ snap' = 0
  /\ post' = 0
  /\ slept' = FALSE
  /\ pulses' = 0
  /\ driven' = <<>>
  /\ iterPulses' = 0
  /\ iterBurstSleeps' = 0
  /\ iterIdle' = 0
  /\ iterConsumes' = 0
  /\ iterations' = 0
  /\ window' = <<>>
  /\ draws' = 0
  /\ trim_pos' = 0
  /\ rolled' = FALSE
  /\ persisted' = eeprom
  /\ startSeed' = 0
  /\ prevPersisted' = persisted
  /\ powerCycles' = powerCycles + 1
  /\ eeWrites' = 0
  /\ persistCalls' = 0
  /\ seedPersisted' = FALSE
  /\ sleepCalls' = 0
  /\ sleepPersists' = 0
  /\ lastPersistCall' = 0
  /\ UNCHANGED <<build, eeprom>>

\* Power cycles of the lazy clock, which leaves seed alone after main().
PowerNext == main \/ PowerCycle

SpecPower == SeedInit /\ [][PowerNext]_vars

\* The countdown of doSleep() alone: a policy that does nothing but call
\* doSleep(), on time.
sleeper ==
  /\ pc \in {"loop_entry", "sleeper"}
  /\ sleepCalls < MaxSleepCalls
  /\ ret' = "sleeper"
  /\ pc' = "doSleep"
  /\ UNCHANGED <<build, draws, sleep_miss_counter, local_smc, mainPrivate>>
  /\ UNCHANGED <<isrPrivate, sleepHist, pulseHist, iterHist>>
  /\ UNCHANGED <<trimState, powerHist, persistHist, countHist>>

CountdownInterrupt == pc = "asleep" /\ ISR(MaxSleepCalls)

CountdownNext ==
  \/ main
  \/ sleeper
  \/ doSleep
  \/ doSleep_atomic
  \/ doSleep_test
  \/ doSleep_ret
  \/ CountdownInterrupt

\* The state the sleeper is in after main() and c calls of doSleep(), c a
\* positive multiple of CLOCK_CYCLES below SEED_UPDATE_INTERVAL: it is the
\* state the run from power-on reaches after c calls, from which the c-th
\* and later calls are a few steps away.
CountdownResume(c) ==
  /\ clock = "THIRTYTWO_KHZ_CLOCK"
  /\ DEBUG = FALSE
  /\ SW_TRIM = FALSE
  /\ ee_trim = 0
  /\ pc = "sleeper"
  /\ ret = "none"
  /\ seed = QRandomStep(SeedGuard(ErasedEeprom))
  /\ eeprom = seed
  /\ sleep_miss_counter = 0
  /\ seed_update_timer = SEED_UPDATE_INTERVAL - c
  /\ local_smc = 0
  /\ lastTick = P0
  /\ PORTB = {}
  /\ cycle_pos = 0
  /\ OCR0A = CLOCK_BASIC_CYCLE + 1
  /\ tick_count = 0
  /\ i = 0
  /\ seedUpdateAfter = 0
  /\ interrupts = c
  /\ decrements = c
  /\ snap = 0
  /\ post = 255
  /\ slept = TRUE
  /\ pulses = 0
  /\ driven = <<>>
  /\ iterPulses = 0
  /\ iterBurstSleeps = 0
  /\ iterIdle = 0
  /\ iterConsumes = c
  /\ iterations = 0
  /\ window = <<CLOCK_BASIC_CYCLE + 1, CLOCK_BASIC_CYCLE, CLOCK_BASIC_CYCLE,
                CLOCK_BASIC_CYCLE, CLOCK_BASIC_CYCLE>>
  /\ draws = 0
  /\ trim_pos = 0
  /\ rolled = FALSE
  /\ persisted = ErasedEeprom
  /\ startSeed = SeedGuard(ErasedEeprom)
  /\ prevPersisted = ErasedEeprom
  /\ powerCycles = 0
  /\ eeWrites = 1
  /\ persistCalls = 1
  /\ seedPersisted = TRUE
  /\ sleepCalls = c
  /\ sleepPersists = 0
  /\ lastPersistCall = 0

\* Power-on, and the same run picked up shortly before its first periodic
\* updateSeed().
CountdownInit ==
  \/ InitWith(ErasedEeprom, "THIRTYTWO_KHZ_CLOCK")
  \/ CountdownResume(SEED_UPDATE_INTERVAL - 2 * CLOCK_CYCLES)

SpecCountdown == CountdownInit /\ [][CountdownNext]_vars

\* The debug build: DEBUG defined.
DebugInit == \E c \in ClockProfiles : PowerOn(ErasedEeprom, c, TRUE, FALSE, 0)

SpecDebug == DebugInit /\ [][Next]_vars

\* Software trim: SW_TRIM defined, a trim word in the EEPROM.
TrimOffsets == {-1, 2}

TrimInit ==
  \E c \in ClockProfiles, t \in TrimOffsets :
    PowerOn(ErasedEeprom, c, FALSE, TRUE, t)

TrimInterrupt == ISR(MaxTrimInterrupts)

TrimNext == MainStep \/ TrimInterrupt

SpecTrim == TrimInit /\ [][TrimNext]_vars

\* The timer keeps firing and the processor keeps executing while awake.
LiveInterrupt == ISR(MaxLiveInterrupts)

LiveNext == MainStep \/ LiveInterrupt

SpecLive ==
  Init /\ [][LiveNext]_vars /\ WF_vars(MainStep) /\ WF_vars(LiveInterrupt)

-----------------------------------------------------------------------------
(* Properties *)

CoilPins == {P0, P1}

\* An iteration of loop's while(1) has just completed.
IterationDone == pc = "loop_top" /\ iterations > 0

\* tick_count holds a drawn value.
Drawn == pc \notin {"main", "loop_entry"} /\ ~(pc = "loop_top" /\ iterations = 0)

RECURSIVE SumCounts(_)
\* timer counts of the intervals of w: compare value + 1 each
SumCounts(w) == IF w = <<>> THEN 0 ELSE (Head(w) + 1) + SumCounts(Tail(w))

CountsPerCycle == IF clock = "FOUR_MHZ_CLOCK" THEN 3125 ELSE 256

\* C1: in every reachable state, whatever the interleaving of interrupts
\* with the main context, sleep_miss_counter equals (interrupts taken -
\* decrements performed) modulo 256: no increment or decrement is lost.
C1_BacklogAccounting ==
  sleep_miss_counter = (interrupts - decrements) % 256

\* an interrupt was taken between the atomic block and the sleep test
C1_Witness ==
  /\ pc = "doSleep_test"
  /\ decrements >= 2
  /\ sleep_miss_counter # post

\* C2 as stated: the counter is never decremented below zero, that is,
\* decrements never outnumber interrupts and no decrement wraps to 255.
C2_NeverBelowZero ==
  /\ decrements <= interrupts
  /\ sleep_miss_counter # 255

\* C2 amended: every doSleep() decrements unconditionally, so the counter
\* wraps from 0 to 255 when no interrupt is pending; decrements run at most
\* one ahead of interrupts, the counter holds 255 exactly then, which is
\* only while that doSleep() call is before or in its sleep; otherwise it
\* holds the number of interrupts not yet consumed.
C2_BelowZeroOnlyWhileSleeping ==
  /\ decrements <= interrupts + 1
  /\ decrements = interrupts + 1 =>
       /\ sleep_miss_counter = 255
       /\ pc \in {"doSleep_test", "asleep"}
  /\ (decrements <= interrupts /\ interrupts - decrements < 255) =>
       sleep_miss_counter = interrupts - decrements

C2_Witness ==
  /\ pc = "asleep"
  /\ sleep_miss_counter = 255
  /\ decrements >= 2

\* C3: a doSleep() call enters sleep iff the counter value its atomic block
\* snapshotted (the value before the decrement) was 0; with a snapshot
\* above 0 it returns without sleeping, the counter lowered by exactly one.
C3_SleepIffSnapshotZero ==
  decrements > 0 =>
    /\ local_smc = snap
    /\ pc = "asleep" => snap = 0
    /\ pc = "doSleep_ret" => (slept <=> snap = 0)
    /\ snap > 0 => post = snap - 1

\* a call that found backlog and returns without sleeping
C3_Witness ==
  /\ pc = "doSleep_ret"
  /\ snap > 0
  /\ ~slept
  /\ post = snap - 1

\* C4: with trim disabled the compare register holds base+1 during the
\* first LONG_CYCLES intervals of every cycle of CYCLES interrupts and base
\* during the rest; every window of CYCLES consecutive interrupts has
\* exactly LONG_CYCLES long intervals and totals 3125 timer counts (4 MHz
\* profile) or 256 (32 kHz profile).
C4_DividerExact ==
  pc # "main" =>
    /\ OCR0A = IF cycle_pos < CLOCK_NUM_LONG_CYCLES
                 THEN CLOCK_BASIC_CYCLE + 1 ELSE CLOCK_BASIC_CYCLE
    /\ cycle_pos = interrupts % CLOCK_CYCLES
    /\ \A k \in 1 .. Len(window) :
         LET n == interrupts - Len(window) + k   \* the interrupt ending interval k
         IN  window[k] = IF (n - 1) % CLOCK_CYCLES < CLOCK_NUM_LONG_CYCLES
                           THEN CLOCK_BASIC_CYCLE + 1 ELSE CLOCK_BASIC_CYCLE
    /\ Len(window) = CLOCK_CYCLES =>
         /\ Cardinality({k \in 1 .. Len(window) : window[k] = CLOCK_BASIC_CYCLE + 1})
              = CLOCK_NUM_LONG_CYCLES
         /\ SumCounts(window) = CountsPerCycle

\* a full window that straddles two cycles, in the short phase
C4_Witness ==
  /\ clock = "FOUR_MHZ_CLOCK"
  /\ Len(window) = CLOCK_CYCLES
  /\ interrupts = 2 * CLOCK_CYCLES + 60
  /\ OCR0A = CLOCK_BASIC_CYCLE

\* C5 as stated: an iteration with drawn value n consumes 9n ticks.
C5_NineTicksPerIteration ==
  IterationDone => iterConsumes = 9 * tick_count

\* C5 amended: an iteration with drawn value n consumes 10n ticks: n pulses
\* that each consume one tick inside doTick() and are each followed by one
\* more doSleep() of the loop, then n*8 pure-sleep consumes.
C5_TenTicksPerIteration ==
  IterationDone =>
    /\ iterConsumes = 10 * tick_count
    /\ iterConsumes = iterPulses + iterBurstSleeps + iterIdle
    /\ iterBurstSleeps = iterPulses
    /\ iterIdle = 8 * iterPulses

C5_Witness ==
  /\ IterationDone
  /\ tick_count = 30
  /\ iterConsumes = 300

\* C6: after every completed iteration the ticks consumed so far are
\* exactly 10 times the pulses emitted so far (1 Hz average at 10 Hz).
C6_TenTicksPerPulse ==
  pc = "loop_top" => decrements = 10 * pulses

C6_Witness ==
  /\ pc = "loop_top"
  /\ iterations >= 2
  /\ pulses >= 31

\* Outputs of random() covering every residue modulo 30 at both ends of
\* its range.
DrawDomain == (0 .. 59) \cup {RANDOM_MAX - k : k \in 0 .. 59}

\* C7: every drawn n is in 1..30, doTick() is called exactly n times per
\* iteration, the idle phase issues exactly n*8 doSleep() calls, and the
\* loop bounds and counters do not overflow.
C7_DrawAndLoopBounds ==
  /\ pc = "loop_top" =>
       \A r \in DrawDomain :
         /\ TickCount(r) \in 1 .. 30
         /\ TickCount(r) = (r % 30) + 1
         /\ IdleCount(TickCount(r)) = 8 * TickCount(r)
  /\ Drawn =>
       /\ tick_count \in 1 .. 30
       /\ IdleCount(tick_count) = 8 * tick_count
       /\ i \in 0 .. 8 * tick_count
  /\ IterationDone =>
       /\ iterPulses = tick_count
       /\ iterIdle = 8 * tick_count

\* an iteration completed with the n drawn from random()'s largest output
C7_Witness ==
  /\ IterationDone
  /\ tick_count = (RANDOM_MAX % 30) + 1
  /\ iterIdle = 8 * tick_count

\* C8: no two consecutive doTick() calls drive the same coil pin, whatever
\* doSleep() calls and interrupts come between; the pins alternate from
\* the first call on (which drives P1).
C8_PinsAlternate ==
  /\ \A k \in 1 .. Len(driven) : driven[k] \in CoilPins
  /\ Len(driven) = 2 => driven[1] # driven[2]
  /\ pulses > 0 => driven[Len(driven)] = (IF pulses % 2 = 1 THEN P1 ELSE P0)

C8_Witness ==
  /\ pulses >= 3
  /\ interrupts > decrements
  /\ pc = "doTick_hold"

\* C9: the coil pins are never both high; exactly one is high during the
\* hold window of doTick() and both are low at every other time, in
\* particular while the processor sleeps.
C9_CoilPinsExclusive ==
  /\ Cardinality(PORTB \cap CoilPins) = IF pc = "doTick_hold" THEN 1 ELSE 0
  /\ pc = "doTick_hold" => PORTB \cap CoilPins = {TICK_PIN(lastTick)}
  /\ pc = "asleep" => PORTB \cap CoilPins = {}

\* asleep inside doTick()'s own doSleep(), after the second pulse
C9_Witness ==
  /\ pc = "asleep"
  /\ ret = "doTick"
  /\ pulses >= 2
  /\ PORTB = {}

\* C10: after main() and any number of q_random() calls the working seed
\* is never 0 and never 0x7fffffff: it stays in 1 .. 2^31-2, for every
\* dword the EEPROM can hold at startup.
C10_SeedNeverDegenerate ==
  pc # "main" => (seed >= 1 /\ seed <= M - 1)

\* C11 as stated: the seed read at startup is replaced by 0x12345678 when
\* it is 0 or 0x7fffffff, and every other dword is the starting state of
\* the generator unchanged.
C11_ReplacedOnlyZeroAndMax ==
  pc # "main" =>
    startSeed = IF persisted \in {0, M} THEN DefaultSeed ELSE persisted

\* C11 amended: the seed read at startup is replaced by 0x12345678 when it
\* is 0 or its low 31 bits are all ones, which 0x7fffffff and 0xffffffff
\* (the erased EEPROM) both are; every other dword, negative ones included,
\* is the starting state unchanged, and the generator's first advance is
\* applied to that starting state.
C11_ReplacedWhenLow31BitsDegenerate ==
  pc # "main" =>
    /\ startSeed =
         IF persisted \in {0, M, ErasedEeprom} THEN DefaultSeed ELSE persisted
    /\ draws = 0 => seed = QRandomStep(startSeed)

\* main() has run on an erased EEPROM and replaced the seed
C11_Witness ==
  /\ pc # "main"
  /\ persisted = ErasedEeprom
  /\ startSeed = DefaultSeed
  /\ draws = 0

\* C12: on every power cycle, whatever dword the seed slot held, the slot
\* holds a different dword once main() has run (the seed advanced once and
\* written, with one EEPROM write), so two consecutive power cycles never
\* find the same dword in the slot.
C12_InitStoresNewSeed ==
  /\ pc # "main" =>
       /\ eeprom # persisted
       /\ eeprom = seed
       /\ eeprom = QRandomStep(startSeed)
       /\ eeWrites = 1
  /\ powerCycles > 0 => persisted # prevPersisted

\* the third power-on, after one that found 0 in the slot
C12_Witness ==
  /\ pc # "main"
  /\ powerCycles = 2
  /\ prevPersisted = 0

RECURSIVE QRandomIter(_, _)
\* s after k calls of q_random()
QRandomIter(s, k) == IF k = 0 THEN s ELSE QRandomIter(QRandomStep(s), k - 1)

\* draws of n made by loop so far
DrawsMade == IF pc = "loop_top" THEN iterations ELSE iterations + 1

\* C13 as stated: every iteration of the lazy loop advances the seed
\* generator exactly once and derives n from its output, so after main()'s
\* own advance and k draws the seed has been advanced k + 1 times from the
\* starting seed and n is computed from it.
C13_DrawsFromSeedStore ==
  Drawn =>
    /\ seed = QRandomIter(startSeed, 1 + DrawsMade)
    /\ pc # "loop_top" => tick_count = TickCount(seed)

\* C14: a call of updateSeed() writes the EEPROM exactly when the stored
\* dword differs from the working seed, and leaves the stored dword equal
\* to the seed; so the stored dword equals the seed for as long as the seed
\* then stays unchanged, and a further call in that time writes nothing.
C14_WritesOnlyWhenChanged ==
  /\ [](seedPersisted => eeprom = seed)
  /\ [][persistCalls' = persistCalls + 1 =>
          /\ eeprom' = seed'
          /\ eeWrites' = eeWrites + (IF eeprom = seed' THEN 0 ELSE 1)
          /\ (seedPersisted /\ seed' = seed) => eeWrites' = eeWrites]_vars

\* three calls, one seed change, two writes: one call found nothing to write
C14_Witness ==
  /\ persistCalls = 3
  /\ draws = 1
  /\ eeWrites = 2
  /\ seedPersisted

\* C15: doSleep() calls updateSeed() on its calls number 864000 * k, k >= 1,
\* since startup and on no other call; between calls the countdown is in
\* 1 .. 864000, it is 864000 minus the calls made since the last multiple
\* of 864000, and so it is never decremented from 0.
C15_PersistEveryInterval ==
  pc # "main" =>
    /\ seed_update_timer \in 1 .. SEED_UPDATE_INTERVAL
    /\ seed_update_timer =
         SEED_UPDATE_INTERVAL - (sleepCalls % SEED_UPDATE_INTERVAL)
    /\ sleepPersists = sleepCalls \div SEED_UPDATE_INTERVAL
    /\ lastPersistCall = SEED_UPDATE_INTERVAL * sleepPersists

\* the call after the first periodic updateSeed()
C15_Witness ==
  /\ sleepCalls = SEED_UPDATE_INTERVAL + 1
  /\ sleepPersists = 1
  /\ lastPersistCall = SEED_UPDATE_INTERVAL
  /\ seed_update_timer = SEED_UPDATE_INTERVAL - 1

\* the compare value of the interval now running when no trim is applied:
\* base + 1 up to position CLOCK_NUM_LONG_CYCLES, base from there on
UntrimmedCompare ==
  IF cycle_pos < CLOCK_NUM_LONG_CYCLES
    THEN CLOCK_BASIC_CYCLE + 1
    ELSE CLOCK_BASIC_CYCLE

\* C16 as stated: with software trim the persisted offset is added to the
\* compare value of exactly the interval that follows a rollover of
\* trim_pos, and every other interval runs with the untrimmed value.
C16_TrimOnNextIntervalOnly ==
  pc # "main" =>
    OCR0A = UChar(UntrimmedCompare + (IF rolled THEN Int16(ee_trim) ELSE 0))

\* C17 as stated: in a debug build doSleep() raises P_UNUSED and locks up
\* exactly on a consume whose decrement takes the backlog below zero (more
\* consumes than interrupts), and on no other consume.
C17_LockupOnNegativeBacklog ==
  (decrements > 0 /\ pc # "doSleep_test") =>
    /\ pc = "lockup" <=> snap = 0
    /\ P_UNUSED \in PORTB <=> pc = "lockup"

\* C17 amended: in a debug build doSleep() raises P_UNUSED and locks up
\* exactly on a consume whose snapshot of the backlog counter is not 0,
\* that is, when an interrupt was taken before the consume and the main
\* context is behind the tick stream; a consume whose decrement takes the
\* counter from 0 to 255 sleeps and never locks up.
C17_LockupOnPendingTick ==
  /\ (decrements > 0 /\ pc # "doSleep_test") =>
       /\ pc = "lockup" <=> snap # 0
       /\ pc = "lockup" => (~slept /\ interrupts >= decrements)
       /\ (pc = "asleep" \/ slept) => snap = 0
  /\ P_UNUSED \in PORTB <=> pc = "lockup"

\* locked up on the third consume, the first two having slept
C17_Witness ==
  /\ DEBUG
  /\ pc = "lockup"
  /\ decrements = 3
  /\ snap = 1
  /\ P_UNUSED \in PORTB

\* The model's supply of interrupts is used up and the main context
\* sleeps: it waits for an interrupt the bound withholds.
InterruptsUsedUp ==
  /\ pc = "asleep"
  /\ interrupts = MaxLiveInterrupts

LiveIterations == 0 .. MaxLiveInterrupts

C19_NeverAheadAtReturn ==
  /\ pc = "doSleep_ret" =>
       /\ decrements <= interrupts
       /\ sleep_miss_counter = (interrupts - decrements) % 256
       /\ slept => snap = 0
  /\ (pc = "asleep" /\ sleep_miss_counter # post) =>
       /\ decrements <= interrupts
       /\ sleep_miss_counter = (interrupts - decrements) % 256

\* back from a sleep that an interrupt had raced: one tick is left over
C19_Witness ==
  /\ pc = "doSleep_ret"
  /\ slept
  /\ decrements >= 2
  /\ sleep_miss_counter = 1

\* C20: the interrupt handler changes only cycle_pos, OCR0A, trim_pos and
\* sleep_miss_counter (and ends a sleep): it leaves the seed, the EEPROM,
\* both countdowns, lastTick, the port and the main context's locals
\* unchanged; and after main() no step of the main context changes
\* cycle_pos, OCR0A or trim_pos.
C20_Frames ==
  /\ [][interrupts' # interrupts =>
          UNCHANGED <<seed, eeprom, ee_trim, seed_update_timer,
                      seedUpdateAfter, lastTick, PORTB, local_smc,
                      tick_count, i, ret>>]_vars
  /\ [][(interrupts' = interrupts /\ pc # "main") =>
          UNCHANGED <<cycle_pos, OCR0A, trim_pos>>]_vars

\* a coil pin is high, an interrupt is pending, trim_pos has rolled over
C20_Witness ==
  /\ SW_TRIM
  /\ pc = "doTick_hold"
  /\ sleep_miss_counter >= 1
  /\ trim_pos > 0
  /\ pulses >= 2

=============================================================================
